---- MODULE Spec2Model ----
(***************************************************************************)
(* Tactical Morse Comm (src/src/App.tsx): the Morse transcoder             *)
(* (encodeMorse / decodeMorse over MORSE_MAP), the telegraph key           *)
(* (handleKeyDown / handleKeyUp with the 600ms commit timer) and the tone  *)
(* generator (MorseAudio).                                                 *)
(*                                                                         *)
(* JavaScript strings are TLA+ strings; the character at position i of s   *)
(* is SubSeq(s, i, i).  Times are milliseconds.                            *)
(***************************************************************************)
EXTENDS Integers, Sequences, FiniteSets, TLC

VARIABLES
    inputText,        \* useState('')   the plaintext field
    inputMorse,       \* useState('')   the Morse field
    isMuted,          \* useState(false)
    signalActive,     \* useState(false)
    lastPressTime,    \* useState(0)
    currentSequence,  \* useState('')   the in-progress buffer
    timeoutRef,       \* useRef(null)   id of the last commit timer set, 0 = null
    timers,           \* pending setTimeout callbacks: [id, due, kind]
    nextTimer,        \* the id the next setTimeout call returns
    now,              \* milliseconds since the page was loaded
    ctx,              \* MorseAudio.ctx / gainNode exist (init() has run)
    gain,             \* target of gainNode.gain: 0 (silent) or 1 (0.1)
    oscillator,       \* MorseAudio.oscillator: id of the node, 0 = null
    running,          \* oscillator nodes started and not stopped
    nextOsc,          \* the id of the next oscillator node created
    clipboard,        \* what copyToClipboard last wrote
    copied,           \* which Copy button wrote it: "none", "encoded", "decoded"
    pasted,           \* the Morse field holds a pasted copy of the encoder output
    lastEvent,        \* the handler or callback that ran last
    pressTime,        \* history: now at the last accepted key-down, -1 = none
    releaseTime,      \* history: now at the key-up ending the last accepted press, -1 = none
    flushed,          \* history: a commit flushed the buffer since that key-up
    appended,         \* history: symbols appended to the buffer so far
    keyed,            \* history: those symbols, in the order they were keyed
    commits,          \* history: commits that flushed a non-empty buffer
    accepted          \* history: key-downs accepted so far

keyerVars == <<isMuted, signalActive, lastPressTime, currentSequence, timeoutRef,
               timers, nextTimer, now, lastEvent, pressTime, releaseTime, flushed,
               appended, keyed, commits, accepted>>
audioVars == <<ctx, gain, oscillator, running, nextOsc>>
codecVars == <<inputText, clipboard, copied, pasted>>
vars == <<inputMorse, keyerVars, audioVars, codecVars>>

----------------------------------------------------------------------------
(* Bounds of the model *)

\* longest plaintext typed into the plaintext field
MaxTextLen == 3
\* most tokens typed into the Morse field
MaxTokens == 3
\* key-downs accepted in one run
MaxPresses == 2
\* handleKeyUp calls in one run
MaxReleases == 3
\* clock ticks in one run
MaxTicks == 7

----------------------------------------------------------------------------
(* The alphabet table *)

\* MORSE_MAP's properties in source order
MORSE_ENTRIES ==
    << <<"A", ".-">>,    <<"B", "-...">>,  <<"C", "-.-.">>,  <<"D", "-..">>,
       <<"E", ".">>,     <<"F", "..-.">>,  <<"G", "--.">>,   <<"H", "....">>,
       <<"I", "..">>,    <<"J", ".---">>,  <<"K", "-.-">>,   <<"L", ".-..">>,
       <<"M", "--">>,    <<"N", "-.">>,    <<"O", "---">>,   <<"P", ".--.">>,
       <<"Q", "--.-">>,  <<"R", ".-.">>,   <<"S", "...">>,   <<"T", "-">>,
       <<"U", "..-">>,   <<"V", "...-">>,  <<"W", ".--">>,   <<"X", "-..-">>,
       <<"Y", "-.--">>,  <<"Z", "--..">>,  <<"0", "-----">>, <<"1", ".----">>,
       <<"2", "..---">>, <<"3", "...--">>, <<"4", "....-">>, <<"5", ".....">>,
       <<"6", "-....">>, <<"7", "--...">>, <<"8", "---..">>, <<"9", "----.">>,
       <<" ", "/">> >>

\* the same table with T given E's pattern
MORSE_ENTRIES_TisE ==
    [i \in DOMAIN MORSE_ENTRIES |->
        IF MORSE_ENTRIES[i][1] = "T" THEN <<"T", ".">> ELSE MORSE_ENTRIES[i]]

\* an object literal: a later property of the same name overwrites an earlier one
ObjectOf(entries) ==
    [k \in {entries[i][1] : i \in DOMAIN entries} |->
        LET last == CHOOSE i \in DOMAIN entries :
                        /\ entries[i][1] = k
                        /\ \A j \in DOMAIN entries : entries[j][1] = k => j <= i
        IN  entries[last][2]]

MORSE_MAP_TisE == ObjectOf(MORSE_ENTRIES_TisE)

MORSE_MAP == ObjectOf(MORSE_ENTRIES)

\* Object.entries(obj): the own properties as [key, value] pairs.  For
\* MORSE_MAP the engine lists the integer-like keys '0'..'9' first and then
\* the others in insertion order; the patterns are pairwise distinct, so the
\* order does not change what the reduce below builds.
ObjectEntries(obj) ==
    LET own == SelectSeq(MORSE_ENTRIES, LAMBDA e : e[1] \in DOMAIN obj)
    IN  [i \in DOMAIN own |-> <<own[i][1], obj[own[i][1]]>>]

\* entries.reduce((acc, [char, morse]) => ({ ...acc, [morse]: char }), {})
RECURSIVE reduceReverse(_, _)
reduceReverse(acc, entries) ==
    IF entries = <<>> THEN acc
    ELSE LET char  == Head(entries)[1]
             morse == Head(entries)[2]
             rest  == [k \in DOMAIN acc \ {morse} |-> acc[k]]
         IN  reduceReverse((morse :> char) @@ rest, Tail(entries))

REVERSE_MORSE_MAP == reduceReverse(<<>>, ObjectEntries(MORSE_MAP))

\* What REVERSE_MORSE_MAP inherits: it is built from the literal {}, so a key
\* it does not own is looked up on Object.prototype.  Each inherited value is
\* a function or an object, which Array.prototype.join renders as below (the
\* exact text is the engine's; V8's is given).
OBJECT_PROTOTYPE ==
    ("constructor" :> "function Object() { [native code] }")
    @@ ("toString" :> "function toString() { [native code] }")
    @@ ("valueOf" :> "function valueOf() { [native code] }")
    @@ ("hasOwnProperty" :> "function hasOwnProperty() { [native code] }")
    @@ ("__proto__" :> "[object Object]")

\* REVERSE_MORSE_MAP[code] || fallback
reverseLookup(code, fallback) ==
    IF code \in DOMAIN REVERSE_MORSE_MAP THEN REVERSE_MORSE_MAP[code]
    ELSE IF code \in DOMAIN OBJECT_PROTOTYPE THEN OBJECT_PROTOTYPE[code]
    ELSE fallback

\* MORSE_MAP[char] || '': char is one UTF-16 unit, and Object.prototype has
\* no property with a one-character name
forwardLookup(char) ==
    IF char \in DOMAIN MORSE_MAP THEN MORSE_MAP[char] ELSE ""

----------------------------------------------------------------------------
(* String.prototype and Array.prototype helpers, on the ASCII inputs used *)

LOWER == "abcdefghijklmnopqrstuvwxyz"
UPPER == "ABCDEFGHIJKLMNOPQRSTUVWXYZ"

charAt(s, i) == SubSeq(s, i, i)

upperChar(c) ==
    IF \E i \in 1..Len(LOWER) : charAt(LOWER, i) = c
    THEN charAt(UPPER, CHOOSE i \in 1..Len(LOWER) : charAt(LOWER, i) = c)
    ELSE c

\* s.toUpperCase()
RECURSIVE toUpperCase(_)
toUpperCase(s) ==
    IF s = "" THEN "" ELSE upperChar(Head(s)) \o toUpperCase(Tail(s))

\* s.split(''): the characters of s, none for the empty string
splitChars(s) == [i \in 1..Len(s) |-> charAt(s, i)]

\* s.split(sep) for a one-character sep: always at least one token
RECURSIVE split(_, _)
split(s, sep) ==
    IF \A i \in 1..Len(s) : charAt(s, i) # sep THEN <<s>>
    ELSE LET i == CHOOSE k \in 1..Len(s) :
                      /\ charAt(s, k) = sep
                      /\ \A j \in 1..(k - 1) : charAt(s, j) # sep
         IN  <<SubSeq(s, 1, i - 1)>> \o split(SubSeq(s, i + 1, Len(s)), sep)

\* arr.join(sep)
RECURSIVE join(_, _)
join(arr, sep) ==
    IF arr = <<>> THEN ""
    ELSE IF Len(arr) = 1 THEN arr[1]
    ELSE arr[1] \o sep \o join(Tail(arr), sep)

\* the white space the inputs and the outputs can hold
WHITESPACE == {" "}

\* s.trim()
RECURSIVE trim(_)
trim(s) ==
    IF s = "" THEN ""
    ELSE IF Head(s) \in WHITESPACE THEN trim(Tail(s))
    ELSE IF charAt(s, Len(s)) \in WHITESPACE THEN trim(SubSeq(s, 1, Len(s) - 1))
    ELSE s

----------------------------------------------------------------------------
(* The transcoder *)

\* encodeMorse without the toUpperCase() call
encodeMorse_noUpper(text) ==
    LET chars == splitChars(text)
    IN  trim(join([i \in DOMAIN chars |-> forwardLookup(chars[i])], " "))

encodeMorse(text) ==
    LET chars == splitChars(toUpperCase(text))
    IN  trim(join([i \in DOMAIN chars |-> forwardLookup(chars[i])], " "))

decodeMorse(morse) ==
    LET codes == split(morse, " ")
    IN  join([i \in DOMAIN codes |->
                 reverseLookup(codes[i], IF codes[i] = "/" THEN " " ELSE "?")], "")

----------------------------------------------------------------------------
(* The tone generator: class MorseAudio *)

\* start(): init() creates the context and the gain node on first use (the
\* platform is taken to provide Web Audio); then a new oscillator node is
\* created, stored in this.oscillator over whatever was there, and started
AudioStart ==
    /\ ctx' = TRUE
    /\ oscillator' = nextOsc
    /\ running' = running \cup {nextOsc}
    /\ nextOsc' = nextOsc + 1
    /\ gain' = 1

\* the delay of the teardown callback of stop()
TEARDOWN_MS == 50

\* stop(): with a context, ramps the gain down and schedules the teardown;
\* the id setTimeout returns is dropped
AudioStop(id) ==
    IF ctx
    THEN /\ gain' = 0
         /\ UNCHANGED <<ctx, oscillator, running, nextOsc>>
    ELSE UNCHANGED audioVars

\* the timers stop() adds when called with the next timer id being id
StopTimers(id) ==
    IF ctx THEN {[id |-> id, due |-> now + TEARDOWN_MS, kind |-> "teardown"]}
    ELSE {}

\* the callback of stop()'s setTimeout
Teardown ==
    IF oscillator # 0
    THEN /\ running' = running \ {oscillator}
         /\ oscillator' = 0
         /\ UNCHANGED <<ctx, gain, nextOsc>>
    ELSE UNCHANGED audioVars

----------------------------------------------------------------------------
(* The telegraph key *)

\* a press shorter than this is a dot
DOT_MS == 200
\* the delay of the commit timer
COMMIT_MS == 600
\* the step of the clock: half the dot threshold
TICK_MS == DOT_MS \div 2
\* Date.now() when the page was loaded: any time later than DOT_MS after the
\* epoch gives the same runs
LOAD_TIME == 10 * COMMIT_MS

\* Date.now()
DateNow == LOAD_TIME + now

\* handleKeyDown with the early return on isMuted left out
handleKeyDown_noMuteGuard ==
    /\ accepted < MaxPresses
    /\ signalActive' = TRUE
    /\ AudioStart
    /\ lastPressTime' = DateNow
    /\ timers' = {t \in timers : t.id # timeoutRef}
    /\ lastEvent' = "keydown"
    /\ pressTime' = now
    /\ accepted' = accepted + 1
    /\ UNCHANGED <<isMuted, currentSequence, timeoutRef, nextTimer, now, inputMorse,
                   releaseTime, flushed, commits, appended, keyed, codecVars>>

handleKeyDown ==
    IF isMuted
    THEN /\ lastEvent' = "keydown"
         /\ UNCHANGED <<inputMorse, isMuted, signalActive, lastPressTime,
                        currentSequence, timeoutRef, timers, nextTimer, now,
                        pressTime, releaseTime, flushed, commits, appended, keyed, accepted,
                        audioVars, codecVars>>
    ELSE /\ accepted < MaxPresses
         /\ signalActive' = TRUE
         /\ AudioStart
         /\ lastPressTime' = DateNow
         /\ timers' = {t \in timers : t.id # timeoutRef}
         /\ lastEvent' = "keydown"
         /\ pressTime' = now
         /\ accepted' = accepted + 1
         /\ UNCHANGED <<isMuted, currentSequence, timeoutRef, nextTimer, now,
                        inputMorse, releaseTime, flushed, commits, appended, keyed, codecVars>>

\* the classification with <= in place of <
symbolOf_inclusive(duration) == IF duration <= DOT_MS THEN "." ELSE "-"

\* duration < 200 ? '.' : '-'
symbolOf(duration) == IF duration < DOT_MS THEN "." ELSE "-"

\* the id of the commit timer handleKeyUp sets: stop() takes one first when
\* the audio context exists
CommitId == IF ctx THEN nextTimer + 1 ELSE nextTimer

\* the body of handleKeyUp, run for the DOM event named
handleKeyUpFrom(event) ==
    /\ appended < MaxReleases
    /\ signalActive' = FALSE
    /\ AudioStop(nextTimer)
    /\ currentSequence' = currentSequence \o symbolOf(DateNow - lastPressTime)
    /\ timeoutRef' = CommitId
    /\ timers' = timers \cup StopTimers(nextTimer)
                        \cup {[id |-> CommitId, due |-> now + COMMIT_MS, kind |-> "commit"]}
    /\ nextTimer' = CommitId + 1
    /\ lastEvent' = event
    /\ appended' = appended + 1
    /\ keyed' = keyed \o symbolOf(DateNow - lastPressTime)
    /\ IF signalActive
       THEN releaseTime' = now /\ flushed' = FALSE
       ELSE UNCHANGED <<releaseTime, flushed>>
    /\ UNCHANGED <<isMuted, lastPressTime, now, inputMorse, pressTime, accepted,
                   commits, codecVars>>

handleKeyUp == handleKeyUpFrom("keyup")

\* the commit timer's callback, with the separating space left out
Commit_noSpace ==
    /\ IF currentSequence # ""
       THEN /\ inputMorse' = inputMorse \o currentSequence
            /\ currentSequence' = ""
            /\ flushed' = TRUE
            /\ commits' = commits + 1
       ELSE UNCHANGED <<inputMorse, currentSequence, flushed, commits>>
    /\ UNCHANGED audioVars

\* the commit timer's callback writing the buffer over the Morse field
Commit_overwrite ==
    /\ IF currentSequence # ""
       THEN /\ inputMorse' = currentSequence
            /\ currentSequence' = ""
            /\ flushed' = TRUE
            /\ commits' = commits + 1
       ELSE UNCHANGED <<inputMorse, currentSequence, flushed, commits>>
    /\ UNCHANGED audioVars

\* the commit timer's callback (Auto-space logic)
Commit ==
    /\ IF currentSequence # ""
       THEN /\ inputMorse' = (IF inputMorse # ""
                              THEN inputMorse \o " " \o currentSequence
                              ELSE currentSequence)
            /\ currentSequence' = ""
            /\ flushed' = TRUE
            /\ commits' = commits + 1
       ELSE UNCHANGED <<inputMorse, currentSequence, flushed, commits>>
    /\ UNCHANGED audioVars

\* the timers the event loop runs next: the earliest due, the oldest first
Due(t) ==
    /\ t \in timers
    /\ t.due <= now
    /\ \A u \in timers : u.due > t.due \/ (u.due = t.due /\ u.id >= t.id)

MouseDown == handleKeyDown

MouseUp == handleKeyUp

\* onMouseLeave wired straight to handleKeyUp, without the signalActive test
MouseLeave_unguarded == handleKeyUpFrom("leave")

\* onMouseLeave={() => { if(signalActive) handleKeyUp(); }}
MouseLeave ==
    IF signalActive
    THEN handleKeyUpFrom("leave")
    ELSE /\ lastEvent' = "leave"
         /\ UNCHANGED <<inputMorse, isMuted, signalActive, lastPressTime,
                        currentSequence, timeoutRef, timers, nextTimer, now,
                        pressTime, releaseTime, flushed, commits, appended, keyed, accepted,
                        audioVars, codecVars>>

\* onTouchStart: preventDefault, then handleKeyDown
TouchStart == handleKeyDown

\* onTouchEnd: preventDefault, then handleKeyUp
TouchEnd == handleKeyUp

\* onClick={() => setIsMuted(!isMuted)}
ToggleMute ==
    /\ isMuted' = ~isMuted
    /\ lastEvent' = "mute"
    /\ UNCHANGED <<inputMorse, signalActive, lastPressTime, currentSequence,
                   timeoutRef, timers, nextTimer, now, pressTime, releaseTime,
                   flushed, commits, appended, keyed, accepted, audioVars, codecVars>>

\* a due setTimeout callback runs
FireCommit ==
    \E t \in timers :
        /\ Due(t)
        /\ t.kind = "commit"
        /\ Commit
        /\ timers' = timers \ {t}
        /\ lastEvent' = "commit"
        /\ UNCHANGED <<isMuted, signalActive, lastPressTime, timeoutRef, nextTimer,
                       now, pressTime, releaseTime, appended, keyed, accepted, codecVars>>

FireTeardown ==
    \E t \in timers :
        /\ Due(t)
        /\ t.kind = "teardown"
        /\ Teardown
        /\ timers' = timers \ {t}
        /\ lastEvent' = "teardown"
        /\ UNCHANGED <<inputMorse, isMuted, signalActive, lastPressTime,
                       currentSequence, timeoutRef, nextTimer, now, pressTime,
                       releaseTime, flushed, commits, appended, keyed, accepted, codecVars>>

\* time passes; a callback that is due runs before the clock moves on
Tick ==
    /\ now < MaxTicks * TICK_MS
    /\ \A t \in timers : t.due > now
    /\ now' = now + TICK_MS
    /\ lastEvent' = "tick"
    /\ UNCHANGED <<inputMorse, isMuted, signalActive, lastPressTime, currentSequence,
                   timeoutRef, timers, nextTimer, pressTime, releaseTime, flushed, commits,
                   appended, keyed, accepted, audioVars, codecVars>>

\* the state after the first render
Init ==
    /\ inputText = ""
    /\ inputMorse = ""
    /\ isMuted = FALSE
    /\ signalActive = FALSE
    /\ lastPressTime = 0
    /\ currentSequence = ""
    /\ timeoutRef = 0
    /\ timers = {}
    /\ nextTimer = 1
    /\ now = 0
    /\ ctx = FALSE
    /\ gain = 0
    /\ oscillator = 0
    /\ running = {}
    /\ nextOsc = 1
    /\ clipboard = ""
    /\ copied = "none"
    /\ pasted = FALSE
    /\ lastEvent = "init"
    /\ pressTime = -1
    /\ releaseTime = -1
    /\ flushed = FALSE
    /\ appended = 0
    /\ keyed = ""
    /\ commits = 0
    /\ accepted = 0

Next ==
    \/ MouseDown
    \/ MouseUp
    \/ MouseLeave
    \/ TouchStart
    \/ TouchEnd
    \/ ToggleMute
    \/ FireCommit
    \/ FireTeardown
    \/ Tick

Spec == Init /\ [][Next]_vars

\* time passes after the last tick counted, for as long as a callback is
\* still to run
Drain ==
    /\ now >= MaxTicks * TICK_MS
    /\ timers # {}
    /\ \A t \in timers : t.due > now
    /\ now' = now + TICK_MS
    /\ lastEvent' = "tick"
    /\ UNCHANGED <<inputMorse, isMuted, signalActive, lastPressTime, currentSequence,
                   timeoutRef, timers, nextTimer, pressTime, releaseTime, flushed,
                   commits, appended, keyed, accepted, audioVars, codecVars>>

\* what the user does to the key and to the mute button
UserEvent ==
    \/ MouseDown
    \/ MouseUp
    \/ MouseLeave
    \/ TouchStart
    \/ TouchEnd
    \/ ToggleMute

\* the user acts until the last tick counted and then leaves the page alone
NextLive ==
    \/ now <= MaxTicks * TICK_MS /\ UserEvent
    \/ FireCommit
    \/ FireTeardown
    \/ Tick
    \/ Drain

\* the clock never stops and the event loop runs every callback that is due
SpecLive ==
    /\ Init
    /\ [][NextLive]_vars
    /\ WF_vars(Tick)
    /\ WF_vars(Drain)
    /\ WF_vars(FireCommit)
    /\ WF_vars(FireTeardown)

----------------------------------------------------------------------------
(* The transcoder panes: the Copy buttons and a paste into the Morse field *)

\* the characters typed into the plaintext field
TextChars == {"S", "O", "e", "5", " ", "!"}

\* the tokens typed into the Morse field
MorseTokens == {"", ".", "...", "---", "/", "!!!", "constructor"}

RECURSIVE StringsOver(_, _)
StringsOver(chars, n) ==
    IF n = 0 THEN {""}
    ELSE LET shorter == StringsOver(chars, n - 1)
         IN  shorter \cup {s \o c : s \in shorter, c \in chars}

RECURSIVE TokenLines(_, _)
TokenLines(tokens, n) ==
    IF n = 1 THEN tokens
    ELSE LET shorter == TokenLines(tokens, n - 1)
         IN  shorter \cup {s \o " " \o t : s \in shorter, t \in tokens}

TextInputs == StringsOver(TextChars, MaxTextLen) \cup {"SOS", "Sos 5"}

MorseInputs ==
    TokenLines(MorseTokens, MaxTokens) \cup {"... --- ... / -.-. --- -- --", "!!!"}

\* onClick={() => copyToClipboard(encodeMorse(inputText))}
CopyEncoded ==
    /\ clipboard' = encodeMorse(inputText)
    /\ copied' = "encoded"
    /\ lastEvent' = "copy"
    /\ UNCHANGED <<inputText, inputMorse, pasted, isMuted, signalActive,
                   lastPressTime, currentSequence, timeoutRef, timers, nextTimer, now,
                   pressTime, releaseTime, flushed, commits, appended, keyed, accepted, audioVars>>

\* onClick={() => copyToClipboard(decodeMorse(inputMorse))}
CopyDecoded ==
    /\ clipboard' = decodeMorse(inputMorse)
    /\ copied' = "decoded"
    /\ lastEvent' = "copy"
    /\ UNCHANGED <<inputText, inputMorse, pasted, isMuted, signalActive,
                   lastPressTime, currentSequence, timeoutRef, timers, nextTimer, now,
                   pressTime, releaseTime, flushed, commits, appended, keyed, accepted, audioVars>>

\* onChange={(e) => setInputMorse(e.target.value)} when the user pastes the
\* copied encoder output into the Morse field
PasteMorse ==
    /\ copied = "encoded"
    /\ inputMorse' = clipboard
    /\ pasted' = TRUE
    /\ lastEvent' = "paste"
    /\ UNCHANGED <<inputText, clipboard, copied, isMuted, signalActive,
                   lastPressTime, currentSequence, timeoutRef, timers, nextTimer, now,
                   pressTime, releaseTime, flushed, commits, appended, keyed, accepted, audioVars>>

\* the panes after the user has typed into one of the two fields
InitCodec ==
    /\ \/ inputText \in TextInputs /\ inputMorse = ""
       \/ inputText = "" /\ inputMorse \in MorseInputs
    /\ isMuted = FALSE
    /\ signalActive = FALSE
    /\ lastPressTime = 0
    /\ currentSequence = ""
    /\ timeoutRef = 0
    /\ timers = {}
    /\ nextTimer = 1
    /\ now = 0
    /\ ctx = FALSE
    /\ gain = 0
    /\ oscillator = 0
    /\ running = {}
    /\ nextOsc = 1
    /\ clipboard = ""
    /\ copied = "none"
    /\ pasted = FALSE
    /\ lastEvent = "init"
    /\ pressTime = -1
    /\ releaseTime = -1
    /\ flushed = FALSE
    /\ appended = 0
    /\ keyed = ""
    /\ commits = 0
    /\ accepted = 0

NextCodec ==
    \/ CopyEncoded
    \/ CopyDecoded
    \/ PasteMorse

SpecCodec == InitCodec /\ [][NextCodec]_vars

----------------------------------------------------------------------------
(* Properties of the transcoder, checked under SpecCodec *)

DIGITS == "0123456789"

IsUpper(c) == \E i \in 1..Len(UPPER) : charAt(UPPER, i) = c
IsLower(c) == \E i \in 1..Len(LOWER) : charAt(LOWER, i) = c
IsDigit(c) == \E i \in 1..Len(DIGITS) : charAt(DIGITS, i) = c

\* made only of A-Z, 0-9 and space
UpperSupported(text) ==
    \A i \in 1..Len(text) :
        LET c == charAt(text, i) IN IsUpper(c) \/ IsDigit(c) \/ c = " "

\* made only of letters in either case, digits and space
Supported(text) ==
    \A i \in 1..Len(text) :
        LET c == charAt(text, i) IN IsUpper(c) \/ IsLower(c) \/ IsDigit(c) \/ c = " "

\* text without the characters whose upper case is not in the table
RECURSIVE WithoutUnsupported(_)
WithoutUnsupported(text) ==
    IF text = "" THEN ""
    ELSE (IF upperChar(Head(text)) \in DOMAIN MORSE_MAP THEN Head(text) ELSE "")
         \o WithoutUnsupported(Tail(text))

Patterns == {MORSE_MAP[c] : c \in DOMAIN MORSE_MAP}

\* the character the claims expect for one token of the Morse field
ExpectedChar(token) ==
    IF token \in Patterns /\ token # "/"
    THEN CHOOSE c \in DOMAIN MORSE_MAP : MORSE_MAP[c] = token
    ELSE IF token = "/" THEN " "
    ELSE "?"

\* C1 (as claimed): decoding the encoder's output of a text S made only of
\* A-Z, 0-9 and space gives S back, the empty S included.
C1_RoundTrip ==
    (copied = "decoded" /\ pasted /\ UpperSupported(inputText))
        => clipboard = toUpperCase(inputText)

\* C2 (as claimed): the decoder's output has exactly one character per token
\* of the Morse field split on single spaces: the table's character for a
\* pattern, a space for '/', and '?' for every other token.
C2_OneCharPerToken ==
    copied = "decoded" =>
        LET codes == split(inputMorse, " ")
        IN  /\ Len(clipboard) = Len(codes)
            /\ \A i \in DOMAIN codes : charAt(clipboard, i) = ExpectedChar(codes[i])
            /\ (inputMorse = "!!!" => clipboard = "?")
            /\ (inputMorse = "... --- ... / -.-. --- -- --" => clipboard = "SOS COMM")

\* C3 (as claimed): the encoder's output for a text equals its output for the
\* text with every unsupported character removed.
C3_UnsupportedDropped ==
    copied = "encoded" => clipboard = encodeMorse(WithoutUnsupported(inputText))

\* C4: for a text made only of supported characters the encoder's output is
\* the table patterns of the uppercased characters in input order, separated
\* by exactly one space, a space encoded as '/'; encodeMorse("SOS") is
\* "... --- ...".
C4_EncodeSupported ==
    (copied = "encoded" /\ Supported(inputText)) =>
        LET codes == split(clipboard, " ")
        IN  /\ inputText = "" => clipboard = ""
            /\ inputText # "" =>
                  /\ Len(codes) = Len(inputText)
                  /\ \A i \in DOMAIN codes :
                        /\ codes[i] = MORSE_MAP[upperChar(charAt(inputText, i))]
                        /\ codes[i] # ""
                        /\ charAt(inputText, i) = " " => codes[i] = "/"
            /\ inputText = "SOS" => clipboard = "... --- ..."

C4_Witness ==
    /\ copied = "encoded"
    /\ inputText = "Sos 5"
    /\ clipboard = "... --- ... / ....."

\* C5: the forward table maps its 37 characters to pairwise distinct
\* patterns, REVERSE_MORSE_MAP[MORSE_MAP[c]] = c for each of them, the keys
\* of REVERSE_MORSE_MAP are exactly the patterns, and so each pattern in the
\* Morse field is looked up to the character it encodes.
C5_ReverseExact ==
    /\ Cardinality(DOMAIN MORSE_MAP) = 37
    /\ Cardinality(Patterns) = 37
    /\ \A c \in DOMAIN MORSE_MAP : REVERSE_MORSE_MAP[MORSE_MAP[c]] = c
    /\ DOMAIN REVERSE_MORSE_MAP = Patterns
    /\ LET codes == split(inputMorse, " ")
       IN  \A i \in DOMAIN codes : \A c \in DOMAIN MORSE_MAP :
               MORSE_MAP[c] = codes[i] => reverseLookup(codes[i], "?") = c

C5_Witness ==
    /\ copied = "decoded"
    /\ inputMorse = "... --- ... / -.-. --- -- --"
    /\ clipboard = "SOS COMM"

----------------------------------------------------------------------------
(* Properties of the telegraph key, checked under Spec *)

CommitPending == \E t \in timers : t.kind = "commit"

\* C6: a key-up that follows an accepted key-down appends exactly one symbol
\* to the in-progress buffer: '.' when less than 200ms have passed since that
\* key-down and '-' otherwise (exactly 200ms gives '-'); a 150ms press is a
\* dot and a 250ms press is a dash.
C6_PressClassified ==
    [][(lastEvent' \in {"keyup", "leave"} /\ signalActive) =>
          /\ currentSequence' =
                currentSequence \o (IF now - pressTime < 200 THEN "." ELSE "-")
          /\ symbolOf(150) = "."
          /\ symbolOf(250) = "-"]_vars

C6_Witness ==
    /\ lastEvent = "keyup"
    /\ releaseTime = now
    /\ pressTime = now - 200
    /\ accepted = 2
    /\ appended = 2
    /\ currentSequence = ".-"

\* C7 (as claimed): when the key-down of a press comes less than 600ms after
\* the key-up of the press before it, no commit has happened between the two
\* and the earlier press's symbol is still in the in-progress buffer, to be
\* committed in one group with the later one.
C7_Accumulate ==
    (lastEvent = "keydown" /\ signalActive /\ releaseTime >= 0
        /\ pressTime - releaseTime < 600 /\ pressTime >= releaseTime)
        => (~flushed /\ currentSequence # "")

\* C8: when the commit timer fires with a non-empty buffer B and Morse field
\* M, the Morse field becomes B if M is empty and M + ' ' + B otherwise and
\* the buffer becomes empty; when it fires with an empty buffer neither
\* changes.
C8_CommitEffect ==
    [][lastEvent' = "commit" =>
          IF currentSequence # ""
          THEN /\ inputMorse' = (IF inputMorse = "" THEN currentSequence
                                 ELSE inputMorse \o " " \o currentSequence)
               /\ currentSequence' = ""
          ELSE UNCHANGED <<inputMorse, currentSequence>>]_vars

C8_Witness ==
    /\ lastEvent = "commit"
    /\ currentSequence = ""
    /\ \E i \in 2..(Len(inputMorse) - 1) : charAt(inputMorse, i) = " "

\* C9 (as claimed): the in-progress buffer is never flushed into the Morse
\* field while the signal is active.
C9_NoFlushWhileActive ==
    [][signalActive => inputMorse' = inputMorse]_vars

\* C10: a key-down while muted changes nothing (the signal, the press
\* timestamp, the tone and the timers stay as they were), the in-progress
\* buffer is untouched, and the commit timer of buffered symbols stays
\* pending.
C10_MutedKeyDown ==
    [][(isMuted /\ lastEvent' = "keydown") =>
          /\ UNCHANGED <<inputMorse, isMuted, signalActive, lastPressTime,
                         currentSequence, timeoutRef, timers, nextTimer, now,
                         audioVars>>
          /\ (currentSequence # "" /\ ~signalActive) => CommitPending']_vars

C10_Witness ==
    /\ isMuted
    /\ lastEvent = "keydown"
    /\ ~signalActive
    /\ currentSequence # ""
    /\ CommitPending

\* the variables of the program, without the history kept for the properties
programVars == <<inputText, inputMorse, isMuted, signalActive, lastPressTime,
                 currentSequence, timeoutRef, timers, nextTimer, now, audioVars>>

\* C11: when the pointer leaves the key while the signal is active the effect
\* is that of a key-up (signal off, tone ramped down and its teardown
\* scheduled, one symbol appended, a commit timer of 600ms started and held
\* in timeoutRef); when it leaves while the signal is inactive nothing
\* changes; after every release or leave event the signal is inactive.
C11_LeaveIsKeyUp ==
    [][/\ lastEvent' = "leave" =>
            IF signalActive
            THEN /\ gain' = 0
                 /\ \E t \in timers' \ timers :
                       t.kind = "teardown" /\ t.due = now + 50
                 /\ currentSequence' =
                       currentSequence \o symbolOf(DateNow - lastPressTime)
                 /\ \E t \in timers' \ timers :
                       t.kind = "commit" /\ t.due = now + 600 /\ timeoutRef' = t.id
                 /\ Cardinality(timers' \ timers) = 2
                 /\ timers \subseteq timers'
                 /\ UNCHANGED <<inputMorse, isMuted, lastPressTime, oscillator, running>>
            ELSE UNCHANGED programVars
       /\ lastEvent' \in {"keyup", "leave"} => ~signalActive']_vars

C11_Witness ==
    /\ lastEvent = "leave"
    /\ ~signalActive
    /\ releaseTime = now
    /\ gain = 0
    /\ currentSequence # ""
    /\ \E t \in timers : t.kind = "commit" /\ t.id = timeoutRef /\ t.due = now + 600

----------------------------------------------------------------------------
(* Further properties of the key and of the tone generator, checked under Spec *)

\* C12 (as claimed): at most one oscillator is started and not yet stopped.
C12_OneTone == Cardinality(running) <= 1

\* C13 (as claimed): at most one commit timer is pending.
C13_SingleCommitTimer == Cardinality({t \in timers : t.kind = "commit"}) <= 1

\* C14 (as claimed): while a press lasts, the oscillator its key-down started
\* is running: no teardown callback of an earlier release stops it.
C14_ToneWhilePressed == signalActive => (nextOsc - 1) \in running

\* C15 (as claimed): the symbols appended to the in-progress buffer are never
\* more than the key-downs accepted.
C15_SymbolPerPress == appended <= accepted

----------------------------------------------------------------------------
(* Properties of what reaches the Morse field *)

\* s without its spaces
RECURSIVE Strip(_)
Strip(s) ==
    IF s = "" THEN ""
    ELSE (IF Head(s) = " " THEN "" ELSE Head(s)) \o Strip(Tail(s))

\* empty, or non-empty groups of dots and dashes with one space between them
WellFormed(morse) ==
    \/ morse = ""
    \/ LET groups == split(morse, " ")
       IN  \A i \in DOMAIN groups :
               /\ groups[i] # ""
               /\ \A k \in 1..Len(groups[i]) : charAt(groups[i], k) \in {".", "-"}

\* C16: no symbol is lost or duplicated.  While the key is idle with a
\* non-empty buffer a commit timer is pending; the symbols in the Morse field
\* followed by those in the buffer are always exactly the symbols keyed, in
\* the order they were keyed; and if the key eventually stays released, all of
\* them end up in the Morse field.  Checked under SpecLive.
C16_NoSymbolLost ==
    /\ []((~signalActive /\ currentSequence # "") => CommitPending)
    /\ [](Strip(inputMorse) \o currentSequence = keyed)
    /\ (<>[](~signalActive)) =>
           <>[](currentSequence = "" /\ Strip(inputMorse) = keyed)

C16_Witness ==
    /\ accepted >= 1
    /\ Len(keyed) >= 2
    /\ commits >= 2
    /\ timers = {}
    /\ currentSequence = ""
    /\ Strip(inputMorse) = keyed

\* C17: the Morse field, changed only by commits, is empty or a sequence of
\* non-empty groups over '.' and '-' separated by exactly one space with no
\* leading or trailing space, and decodeMorse of a non-empty field gives one
\* character per non-empty commit made.
C17_FieldWellFormed ==
    /\ WellFormed(inputMorse)
    /\ inputMorse = "" => commits = 0
    /\ inputMorse # "" => Len(decodeMorse(inputMorse)) = commits

C17_Witness ==
    /\ commits = 2
    /\ Len(split(inputMorse, " ")) = 2
    /\ Len(decodeMorse(inputMorse)) = 2

====
